---- MODULE Spec2Model ----
(***************************************************************************)
(* Timetable generator and schedule store of the timetable backend.        *)
(*                                                                         *)
(* The store (TimetableVersion, TimetableEntry, ConflictLog rows) and its   *)
(* requests are modelled.  generate_timetable is modelled step by step:    *)
(* candidate construction, the recursive place_item search with an         *)
(* explicit call stack, persistence of the candidate and the final         *)
(* selector.  random.shuffle is a Fisher-Yates shuffle driven by a         *)
(* pseudo-random generator whose seed is an input of the run.  Spec and    *)
(* SpecEdit take one request at a time; SpecMoveRace and SpecActivateRace  *)
(* split move_entry and activate into their read and write steps and       *)
(* interleave two handlers.                                                *)
(*                                                                         *)
(* Scores are stored in hundredths (100.0 is 10000).  Python's None is the *)
(* id 0 (row ids start at 1) and NoItem for an empty block.                *)
(***************************************************************************)
EXTENDS Integers, Sequences, FiniteSets, TLC

VARIABLES
    inst,               \* the read-only entity tables of the store
    versions,           \* TimetableVersion rows, committed
    entries,            \* TimetableEntry rows, committed
    conflict_logs,      \* ConflictLog rows, committed
    response,           \* result of the last finished request
    pc,                 \* position of the running generate request
    num_versions,       \* parameter of the run
    index,              \* loop variable of "for index in range(num_versions)"
    rng,                \* state of the random generator
    class_items,        \* item list of the current candidate
    empty_blocks,       \* all blocks of all class grids, with their items
    teacher_busy,
    room_busy,
    stack,              \* active place_item calls, innermost last
    call_idx,           \* argument of the place_item call being entered
    ret,                \* value returned by the place_item call that ended
    generated_versions, \* ids of the versions of this run, in order
    steps,              \* search steps of the current candidate
    candidates,         \* candidates requested from generate_timetable so far
    request,            \* the last move or lock request and what it returned
    moved,              \* the accepted moves, oldest first
    sessions            \* the requests that are handled concurrently

dbVars  == <<versions, entries, conflict_logs>>
editVars == <<request, moved, sessions>>
runVars == <<num_versions, index, rng, class_items, empty_blocks, teacher_busy,
             room_busy, stack, call_idx, ret, generated_versions, steps>>
vars    == <<inst, editVars, versions, entries, conflict_logs, response, pc, num_versions,
             index, rng, class_items, empty_blocks, teacher_busy, room_busy,
             stack, call_idx, ret, generated_versions, steps, candidates>>

----------------------------------------------------------------------------
(* Bounds of the exploration *)

MaxNumVersions == 2     \* num_versions ranges over 0..MaxNumVersions
NumSeeds == 2           \* seeds of the random generator: 1..NumSeeds
MaxCandidates == 3      \* candidates requested per behaviour
MaxSearchSteps == 300   \* search steps explored per candidate

----------------------------------------------------------------------------
(* Sequence helpers *)

Range(s) == {s[i] : i \in 1..Len(s)}

RECURSIVE Flatten(_)
Flatten(ss) == IF ss = <<>> THEN <<>> ELSE Head(ss) \o Flatten(Tail(ss))

Swap(s, i, j) == [s EXCEPT ![i] = s[j], ![j] = s[i]]

Repeat(x, n) == [k \in 1..n |-> x]

----------------------------------------------------------------------------
(* random: a linear congruential generator stands for the Mersenne Twister *)

NextRng(r) == (r * 75 + 74) % 65537

RandBelow(r, n) == NextRng(r) % n

\* random.shuffle(x): for i in reversed(range(1, len(x))):
\*                        j = randbelow(i + 1); x[i], x[j] = x[j], x[i]
RECURSIVE ShuffleFrom(_, _, _)
ShuffleFrom(x, i, r) ==
    IF i < 2 THEN [seq |-> x, rng |-> r]
    ELSE ShuffleFrom(Swap(x, i, 1 + RandBelow(r, i)), i - 1, NextRng(r))

Shuffle(x, r) == ShuffleFrom(x, Len(x), r)

----------------------------------------------------------------------------
(* Time slots: the rows written by configure_time_slots for the default     *)
(* working days.  Row ids follow the insertion order.                       *)

days_order == <<"Monday", "Tuesday", "Wednesday", "Thursday", "Friday">>

\* is_break of the nine rows of DAILY_SCHEDULE, in slot_order 1..9
DAILY_SCHEDULE == <<FALSE, FALSE, FALSE, TRUE, FALSE, FALSE, TRUE, FALSE, FALSE>>

TimeSlots ==
    Flatten([d \in 1..Len(days_order) |->
        [o \in 1..Len(DAILY_SCHEDULE) |->
            [id          |-> (d - 1) * Len(DAILY_SCHEDULE) + o,
             day_of_week |-> days_order[d],
             slot_order  |-> o,
             is_break    |-> DAILY_SCHEDULE[o]]]])

\* TimeSlot.query.get(id): row ids are the positions in the table
SlotRow(id) == TimeSlots[id]

\* slots = TimeSlot.query.filter_by(is_break=False)...all()
slots == SelectSeq(TimeSlots, LAMBDA s : ~s.is_break)

\* slot_map with the rows after the lunch break keyed one order too high
slot_map_ShiftedKeys(day, s_idx) ==
    LET o   == IF s_idx > 4 THEN s_idx - 1 ELSE s_idx
        hit == {s \in Range(TimeSlots) : s.day_of_week = day /\ s.slot_order = o}
    IN  IF hit = {} THEN 0 ELSE (CHOOSE s \in hit : TRUE).id

\* slot_map.get((day, s_idx)): the id of the row, 0 for None
slot_map(day, s_idx) ==
    LET hit == {s \in Range(slots) : s.day_of_week = day /\ s.slot_order = s_idx}
    IN  IF hit = {} THEN 0 ELSE (CHOOSE s \in hit : TRUE).id

----------------------------------------------------------------------------
(* Entity tables.  Each instance is a content of the class, subject,        *)
(* teacher, room, teacher_subjects and availability tables.                 *)

Class(id, strength) == [id |-> id, student_strength |-> strength]

Subject(id, class_id, lpw, is_lab) ==
    [id |-> id, class_id |-> class_id, lectures_per_week |-> lpw,
     is_lab |-> is_lab, priority_morning |-> FALSE]

Teacher(id, cap) == [id |-> id, max_lectures_per_day |-> cap]

Room(id, capacity, room_type) ==
    [id |-> id, capacity |-> capacity, room_type |-> room_type]

TeacherSubject(teacher_id, subject_id) ==
    [teacher_id |-> teacher_id, subject_id |-> subject_id]

Availability(teacher_id, time_slot_id, is_available) ==
    [teacher_id |-> teacher_id, time_slot_id |-> time_slot_id,
     is_available |-> is_available]

\* the subjects of a class that fill every block of its grid: two lab
\* subjects (5 + 3 lab blocks) and three theory subjects (15 theory blocks)
FullWeekSubjects(c, base) ==
    << Subject(base + 1, c, 10, TRUE),  Subject(base + 2, c, 6, TRUE),
       Subject(base + 3, c, 5, FALSE),  Subject(base + 4, c, 5, FALSE),
       Subject(base + 5, c, 5, FALSE) >>

\* scenario 1 of the specification: the smallest feasible instance
SmallestFeasible ==
    [name |-> "smallest_feasible",
     classes |-> << Class(1, 30) >>,
     subjects |-> << Subject(1, 1, 3, FALSE) >>,
     teachers |-> << Teacher(1, 6) >>,
     rooms |-> << Room(1, 40, "classroom") >>,
     teacher_subject |-> << TeacherSubject(1, 1) >>,
     availability |-> {}]

\* one class whose demand fills the grid; the lab room is too small for the
\* class and the teacher is unavailable on Monday's first slot
FullWeek ==
    [name |-> "full_week",
     classes |-> << Class(1, 30) >>,
     subjects |-> FullWeekSubjects(1, 0),
     teachers |-> << Teacher(1, 6) >>,
     rooms |-> << Room(1, 40, "classroom"), Room(2, 20, "lab") >>,
     teacher_subject |-> [s \in 1..5 |-> TeacherSubject(1, s)],
     availability |-> {Availability(1, 1, FALSE), Availability(1, 3, TRUE)}]

\* the subjects of a class that fill every block of its grid with four
\* lab subjects (2 lab blocks each) and three theory subjects
FourLabSubjects(c, base) ==
    << Subject(base + 1, c, 4, TRUE),   Subject(base + 2, c, 4, TRUE),
       Subject(base + 3, c, 4, TRUE),   Subject(base + 4, c, 4, TRUE),
       Subject(base + 5, c, 5, FALSE),  Subject(base + 6, c, 5, FALSE),
       Subject(base + 7, c, 5, FALSE) >>

\* two classes that fill their grids and share the two classrooms, the two
\* lab rooms and teacher 3, who teaches a lab and a theory subject of class
\* 1 and a lab and a theory subject of class 2
TwoClasses ==
    [name |-> "two_classes",
     classes |-> << Class(1, 30), Class(2, 25) >>,
     subjects |-> FourLabSubjects(1, 0) \o FourLabSubjects(2, 7),
     teachers |-> << Teacher(1, 7), Teacher(2, 7), Teacher(3, 7) >>,
     rooms |-> << Room(1, 40, "classroom"), Room(2, 30, "lab"),
                  Room(3, 40, "classroom"), Room(4, 30, "lab") >>,
     teacher_subject |->
        [s \in 1..14 |->
            TeacherSubject(IF s \in {1, 5, 8, 12} THEN 3
                           ELSE IF s <= 7 THEN 1 ELSE 2, s)],
     availability |-> {}]

\* a theory subject and no classroom: no block accepts the first item
NoClassroom ==
    [name |-> "no_classroom",
     classes |-> << Class(1, 30) >>,
     subjects |-> << Subject(1, 1, 2, FALSE) >>,
     teachers |-> << Teacher(1, 6) >>,
     rooms |-> << Room(1, 40, "lab") >>,
     teacher_subject |-> << TeacherSubject(1, 1) >>,
     availability |-> {}]

\* scenario 3 of the specification: a subject without teacher mapping, and
\* a class without subjects
NoMapping ==
    [name |-> "no_mapping",
     classes |-> << Class(1, 30), Class(2, 30) >>,
     subjects |-> << Subject(1, 1, 3, FALSE), Subject(2, 1, 2, FALSE) >>,
     teachers |-> << Teacher(1, 6) >>,
     rooms |-> << Room(1, 40, "classroom") >>,
     teacher_subject |-> << TeacherSubject(1, 1) >>,
     availability |-> {}]

\* no class at all: nothing to place
NoClasses ==
    [name |-> "no_classes",
     classes |-> << >>,
     subjects |-> << >>,
     teachers |-> << Teacher(1, 6) >>,
     rooms |-> << Room(1, 40, "classroom") >>,
     teacher_subject |-> << >>,
     availability |-> {}]

\* scenario 4 of the specification on a full grid: a lab subject with an odd
\* lectures_per_week (11 // 2 = 5 blocks), every subject mapped
OddLab ==
    [name |-> "odd_lab",
     classes |-> << Class(1, 30) >>,
     subjects |-> << Subject(1, 1, 11, TRUE),  Subject(2, 1, 6, TRUE),
                     Subject(3, 1, 5, FALSE),  Subject(4, 1, 5, FALSE),
                     Subject(5, 1, 5, FALSE) >>,
     teachers |-> << Teacher(1, 7) >>,
     rooms |-> << Room(1, 40, "classroom"), Room(2, 40, "lab") >>,
     teacher_subject |-> [s \in 1..5 |-> TeacherSubject(1, s)],
     availability |-> {}]

\* a theory period that fits anywhere and a lab block without any lab room:
\* the lab item fails after every placement of the theory item
NoLabRoom ==
    [name |-> "no_lab_room",
     classes |-> << Class(1, 30) >>,
     subjects |-> << Subject(1, 1, 1, FALSE), Subject(2, 1, 2, TRUE) >>,
     teachers |-> << Teacher(1, 6) >>,
     rooms |-> << Room(1, 40, "classroom") >>,
     teacher_subject |-> << TeacherSubject(1, 1), TeacherSubject(1, 2) >>,
     availability |-> {}]

Instances == {SmallestFeasible, FullWeek, TwoClasses, NoClassroom, NoMapping,
              NoClasses, OddLab, NoLabRoom}

ClassRow(id)   == CHOOSE c \in Range(inst.classes) : c.id = id
SubjectRow(id) == CHOOSE s \in Range(inst.subjects) : s.id = id
RoomRow(id)    == CHOOSE r \in Range(inst.rooms) : r.id = id

----------------------------------------------------------------------------
(* generate_timetable: what is read from the store at the start of the run  *)

\* t_map = {ts.subject_id: ts.teacher_id ...}: the last row of a subject
\* wins; t_map.get(subject_id) is 0 (None) without a row
t_map(subject_id) ==
    LET rows == {i \in 1..Len(inst.teacher_subject) :
                    inst.teacher_subject[i].subject_id = subject_id}
    IN  IF rows = {} THEN 0
        ELSE inst.teacher_subject[CHOOSE i \in rows : \A j \in rows : j <= i].teacher_id

classrooms == SelectSeq(inst.rooms, LAMBDA r : r.room_type = "classroom")
lab_rooms  == SelectSeq(inst.rooms, LAMBDA r : r.room_type = "lab")

----------------------------------------------------------------------------
(* Demand expansion: the item list of one candidate *)

Item(s, type) == [class_id |-> s.class_id, subject_id |-> s.id, type |-> type]

l_items(c_subs) ==
    Flatten([i \in 1..Len(c_subs) |->
        IF c_subs[i].is_lab
        THEN Repeat(Item(c_subs[i], "L"), c_subs[i].lectures_per_week \div 2)
        ELSE << >>])

t_items(c_subs) ==
    Flatten([i \in 1..Len(c_subs) |->
        IF c_subs[i].is_lab
        THEN << >>
        ELSE Repeat(Item(c_subs[i], "T"), c_subs[i].lectures_per_week)])

ExpandItems ==
    Flatten([ci \in 1..Len(inst.classes) |->
        LET c_subs == SelectSeq(inst.subjects,
                                LAMBDA s : s.class_id = inst.classes[ci].id)
        IN  l_items(c_subs) \o t_items(c_subs)])

\* class_items.sort(key=lambda x: x["type"], reverse=True): a stable sort in
\* descending order of the type, "T" before "L"
SortItems(items) ==
    SelectSeq(items, LAMBDA x : x.type = "T") \o
    SelectSeq(items, LAMBDA x : x.type = "L")

----------------------------------------------------------------------------
(* Grid: the typed blocks of a class's week *)

NoItem == [subject_id |-> 0, teacher_id |-> 0, room_id |-> 0]

\* a heavy day whose second lab block spans the short break
HeavyDay_LabAcrossBreak ==
    << [slots |-> <<1, 2>>, type |-> "L"],
       [slots |-> <<6, 8>>, type |-> "L"],
       [slots |-> <<3>>,    type |-> "T"],
       [slots |-> <<5>>,    type |-> "T"],
       [slots |-> <<9>>,    type |-> "T"] >>

HeavyDay == << [slots |-> <<1, 2>>, type |-> "L"],
               [slots |-> <<5, 6>>, type |-> "L"],
               [slots |-> <<3>>,    type |-> "T"],
               [slots |-> <<8>>,    type |-> "T"],
               [slots |-> <<9>>,    type |-> "T"] >>

LightDay == << [slots |-> <<1, 2>>, type |-> "L"],
               [slots |-> <<3>>,    type |-> "T"],
               [slots |-> <<5>>,    type |-> "T"],
               [slots |-> <<6>>,    type |-> "T"] >>

\* the blocks of class c_id, day after day in the order of days_shuffled;
\* the first three days are heavy
ClassGrid(c_id, days_shuffled) ==
    Flatten([i \in 1..Len(days_shuffled) |->
        LET tmpl == IF i - 1 < 3 THEN HeavyDay ELSE LightDay
        IN  [b \in 1..Len(tmpl) |->
                [class_id |-> c_id, day |-> days_shuffled[i],
                 slots |-> tmpl[b].slots, type |-> tmpl[b].type,
                 item |-> NoItem]]])

\* class_grids and empty_blocks for all classes; one shuffle of the days
\* per class
RECURSIVE BuildGrids(_, _)
BuildGrids(cs, r) ==
    IF cs = << >> THEN [blocks |-> << >>, rng |-> r]
    ELSE LET sh   == Shuffle(days_order, r)
             rest == BuildGrids(Tail(cs), sh.rng)
         IN  [blocks |-> ClassGrid(Head(cs).id, sh.seq) \o rest.blocks,
              rng |-> rest.rng]

----------------------------------------------------------------------------
(* place_item: the checks of one loop iteration *)

\* daily_subs that reads no block
daily_subs_Empty(c_id, day) == {}

\* daily_subs: the subjects already placed on (c_id, day)
daily_subs(c_id, day) ==
    {empty_blocks[b].item.subject_id :
        b \in {k \in 1..Len(empty_blocks) :
                  /\ empty_blocks[k].class_id = c_id
                  /\ empty_blocks[k].day = day
                  /\ empty_blocks[k].item # NoItem}}

\* t_conflict without the look-up in teacher_busy
t_conflict_NoBusyCheck(block, teacher_id) ==
    \E i \in 1..Len(block.slots) : slot_map(block.day, block.slots[i]) = 0

\* t_conflict: a slot of the block is missing or the teacher is busy in it
t_conflict(block, teacher_id) ==
    \E i \in 1..Len(block.slots) :
        LET ts_id == slot_map(block.day, block.slots[i])
        IN  ts_id = 0 \/ <<teacher_id, ts_id>> \in teacher_busy

\* r_conflict without the look-up in room_busy
r_conflict_NoBusyCheck(block, room_id) ==
    \E i \in 1..Len(block.slots) : slot_map(block.day, block.slots[i]) = 0

\* r_conflict: a slot of the block is missing or the room is busy in it
r_conflict(block, room_id) ==
    \E i \in 1..Len(block.slots) :
        LET ts_id == slot_map(block.day, block.slots[i])
        IN  ts_id = 0 \/ <<room_id, ts_id>> \in room_busy

\* a room search that finds every room taken
PickRoom_None(block, shuffled_rooms) == 0

\* the first room of shuffled_rooms without conflict, 0 (None) if none
PickRoom(block, shuffled_rooms) ==
    LET free == {i \in 1..Len(shuffled_rooms) :
                    ~r_conflict(block, shuffled_rooms[i].id)}
    IN  IF free = {} THEN 0
        ELSE shuffled_rooms[CHOOSE i \in free : \A j \in free : i <= j].id

\* the keys (x, ts_id) of the slots of a block, in slot order
BusyKeys(block, x) ==
    [i \in 1..Len(block.slots) |-> <<x, slot_map(block.day, block.slots[i])>>]

\* valid_blocks of an item: indices into empty_blocks, in list order
valid_blocks(item) ==
    LET RECURSIVE Pick(_)
        Pick(k) ==
            IF k > Len(empty_blocks) THEN << >>
            ELSE (IF /\ empty_blocks[k].class_id = item.class_id
                     /\ empty_blocks[k].type = item.type
                     /\ empty_blocks[k].item = NoItem
                  THEN <<k>> ELSE << >>) \o Pick(k + 1)
    IN  Pick(1)

Top == stack[Len(stack)]
Pop == SubSeq(stack, 1, Len(stack) - 1)

----------------------------------------------------------------------------
(* The generate request *)

\* the pre-check of the generate route: the issue list
issues ==
    LET subject_ids_with_teachers ==
            {inst.teacher_subject[i].subject_id : i \in 1..Len(inst.teacher_subject)}
        OfClass(c) ==
            LET cls_subjects == {s \in Range(inst.subjects) : s.class_id = c.id}
            IN  IF cls_subjects = {}
                THEN {[kind |-> "no_subjects", class_id |-> c.id, subject_id |-> 0]}
                ELSE {[kind |-> "no_teacher_mapping", class_id |-> c.id,
                       subject_id |-> s.id] :
                        s \in {x \in cls_subjects : x.id \notin subject_ids_with_teachers}}
    IN  UNION {OfClass(c) : c \in Range(inst.classes)}

Idle == pc = "idle"

\* the two request handlers that run concurrently, and a handler that has
\* not taken its request yet
Handlers == {"a", "b"}

NoSession == [op |-> "none", pc |-> "idle", id |-> 0, slot |-> 0, rows |-> {},
              status |-> 0]

\* no move or lock request has been made
NoRequest == [op |-> "none", entry_id |-> 0, time_slot_id |-> 0,
              error |-> "", alternates |-> << >>, before |-> << >>, n |-> 0]

\* the route answers 400 with the issues; nothing is generated
GenerateBlocked ==
    /\ Idle
    /\ issues # {}
    /\ response' = [op |-> "generate", status |-> 400]
    /\ UNCHANGED <<inst, editVars, pc, candidates>>
    /\ UNCHANGED dbVars
    /\ UNCHANGED runVars

\* generate_timetable(created_by, num_versions) is called
GenerateStart(nv) ==
    /\ Idle
    /\ issues = {}
    /\ candidates + nv <= MaxCandidates
    /\ candidates' = candidates + nv
    /\ num_versions' = nv
    /\ index' = 0
    /\ generated_versions' = << >>
    /\ class_items' = << >>
    /\ empty_blocks' = << >>
    /\ teacher_busy' = {}
    /\ room_busy' = {}
    /\ stack' = << >>
    /\ call_idx' = 0
    /\ ret' = FALSE
    /\ steps' = 0
    /\ pc' = IF nv > 0 THEN "candidate" ELSE "select"
    /\ response' = [op |-> "generate", status |-> 0]
    /\ UNCHANGED <<inst, editVars, rng>>
    /\ UNCHANGED dbVars

\* one pass of "for index in range(num_versions)" up to the call place_item(0)
BuildCandidate ==
    /\ pc = "candidate"
    /\ LET sh    == Shuffle(ExpandItems, rng)
           grids == BuildGrids(inst.classes, sh.rng)
       IN  /\ class_items' = SortItems(sh.seq)
           /\ empty_blocks' = grids.blocks
           /\ rng' = grids.rng
    /\ teacher_busy' = {}
    /\ room_busy' = {}
    /\ stack' = << >>
    /\ call_idx' = 0
    /\ ret' = FALSE
    /\ steps' = 0
    /\ pc' = "call"
    /\ UNCHANGED <<inst, editVars, response, num_versions, index, generated_versions, candidates>>
    /\ UNCHANGED dbVars

----------------------------------------------------------------------------
(* place_item(item_idx), one step per call entry, loop iteration and return *)

Searching == steps < MaxSearchSteps

\* the values of teacher_busy, room_busy and every block's item, which each
\* frame keeps as they were when its call was entered
Bookkeeping ==
    [teacher_busy |-> teacher_busy, room_busy |-> room_busy,
     items |-> [k \in 1..Len(empty_blocks) |-> empty_blocks[k].item]]

searchFrame == <<inst, editVars, versions, entries, conflict_logs, response, num_versions,
                 index, generated_versions, candidates>>

\* entry of place_item(call_idx) up to the shuffle of valid_blocks
PlaceCall ==
    /\ pc = "call"
    /\ Searching
    /\ steps' = steps + 1
    /\ IF call_idx = Len(class_items)
       THEN /\ ret' = TRUE
            /\ pc' = "return"
            /\ UNCHANGED <<stack, rng>>
       ELSE LET item       == class_items[call_idx + 1]
                teacher_id == t_map(item.subject_id)
                sh         == Shuffle(valid_blocks(item), rng)
            IN  IF teacher_id = 0
                THEN /\ ret' = FALSE
                     /\ pc' = "return"
                     /\ UNCHANGED <<stack, rng>>
                ELSE /\ stack' = Append(stack,
                            [item_idx |-> call_idx, teacher_id |-> teacher_id,
                             valid_blocks |-> sh.seq, pos |-> 1,
                             added_teacher |-> << >>, added_room |-> << >>,
                             entered |-> Bookkeeping])
                     /\ rng' = sh.rng
                     /\ pc' = "loop"
                     /\ UNCHANGED ret
    /\ UNCHANGED <<call_idx, class_items, empty_blocks, teacher_busy, room_busy>>
    /\ UNCHANGED searchFrame

\* one iteration of "for vb in valid_blocks": the block is skipped, or the
\* item is put into it and place_item(item_idx + 1) is called
TryBlock ==
    /\ pc = "loop"
    /\ Searching
    /\ Top.pos <= Len(Top.valid_blocks)
    /\ steps' = steps + 1
    /\ LET f      == Top
           k      == f.valid_blocks[f.pos]
           block  == empty_blocks[k]
           item   == class_items[f.item_idx + 1]
           r_group == IF item.type = "T" THEN classrooms ELSE lab_rooms
           sh      == Shuffle(r_group, rng)
           room_id == PickRoom(block, sh.seq)
           skip    == [stack EXCEPT ![Len(stack)].pos = f.pos + 1]
       IN  IF \/ item.subject_id \in daily_subs(item.class_id, block.day)
              \/ t_conflict(block, f.teacher_id)
           THEN /\ stack' = skip
                /\ UNCHANGED <<rng, empty_blocks, teacher_busy, room_busy,
                               call_idx, pc>>
           ELSE IF room_id = 0
           THEN /\ stack' = skip
                /\ rng' = sh.rng
                /\ UNCHANGED <<empty_blocks, teacher_busy, room_busy, call_idx, pc>>
           ELSE /\ empty_blocks' =
                        [empty_blocks EXCEPT ![k].item =
                            [subject_id |-> item.subject_id,
                             teacher_id |-> f.teacher_id, room_id |-> room_id]]
                /\ teacher_busy' = teacher_busy \cup Range(BusyKeys(block, f.teacher_id))
                /\ room_busy' = room_busy \cup Range(BusyKeys(block, room_id))
                /\ stack' = [stack EXCEPT
                                ![Len(stack)].added_teacher = BusyKeys(block, f.teacher_id),
                                ![Len(stack)].added_room = BusyKeys(block, room_id)]
                /\ rng' = sh.rng
                /\ call_idx' = f.item_idx + 1
                /\ pc' = "call"
    /\ UNCHANGED <<ret, class_items>>
    /\ UNCHANGED searchFrame

\* the loop over valid_blocks is exhausted: return False
LoopEnd ==
    /\ pc = "loop"
    /\ Searching
    /\ Top.pos > Len(Top.valid_blocks)
    /\ steps' = steps + 1
    /\ stack' = Pop
    /\ ret' = FALSE
    /\ pc' = "return"
    /\ UNCHANGED <<rng, class_items, empty_blocks, teacher_busy, room_busy, call_idx>>
    /\ UNCHANGED searchFrame

\* a call place_item(item_idx + 1) made from the loop has returned True:
\* the caller returns True
ReturnTrue ==
    /\ pc = "return"
    /\ Searching
    /\ stack # << >>
    /\ ret
    /\ steps' = steps + 1
    /\ stack' = Pop
    /\ UNCHANGED <<ret, pc, rng, class_items, empty_blocks, teacher_busy, room_busy,
                   call_idx>>
    /\ UNCHANGED searchFrame

\* the return of False handled without "teacher_busy.remove(tk)" and
\* "room_busy.remove(rk)"
Undo_KeepsKeys ==
    /\ pc = "return"
    /\ Searching
    /\ stack # << >>
    /\ ~ret
    /\ steps' = steps + 1
    /\ LET f == Top
           k == f.valid_blocks[f.pos]
       IN  /\ empty_blocks' = [empty_blocks EXCEPT ![k].item = NoItem]
           /\ stack' = [stack EXCEPT ![Len(stack)].pos = f.pos + 1,
                                     ![Len(stack)].added_teacher = << >>,
                                     ![Len(stack)].added_room = << >>]
    /\ pc' = "loop"
    /\ UNCHANGED <<ret, rng, class_items, call_idx, teacher_busy, room_busy>>
    /\ UNCHANGED searchFrame

\* it has returned False: the block is cleared, the busy keys are removed
\* and the loop goes on
Undo ==
    /\ pc = "return"
    /\ Searching
    /\ stack # << >>
    /\ ~ret
    /\ steps' = steps + 1
    /\ LET f == Top
           k == f.valid_blocks[f.pos]
       IN  /\ empty_blocks' = [empty_blocks EXCEPT ![k].item = NoItem]
           /\ teacher_busy' = teacher_busy \ Range(f.added_teacher)
           /\ room_busy' = room_busy \ Range(f.added_room)
           /\ stack' = [stack EXCEPT ![Len(stack)].pos = f.pos + 1,
                                     ![Len(stack)].added_teacher = << >>,
                                     ![Len(stack)].added_room = << >>]
    /\ pc' = "loop"
    /\ UNCHANGED <<ret, rng, class_items, call_idx>>
    /\ UNCHANGED searchFrame

----------------------------------------------------------------------------
(* After the search: the version, its entries and its log record *)

\* TimetableVersion(name=..., is_active=False) after flush: the next row id
NewVersionId == Len(versions) + 1

Version(id, score) == [id |-> id, score |-> score, is_active |-> FALSE]

\* the rows added by "for eb in empty_blocks: for s_idx in block['slots']"
NewEntries(version_id) ==
    LET rows == Flatten([k \in 1..Len(empty_blocks) |->
                    [i \in 1..Len(empty_blocks[k].slots) |->
                        [version_id   |-> version_id,
                         class_id     |-> empty_blocks[k].class_id,
                         subject_id   |-> empty_blocks[k].item.subject_id,
                         teacher_id   |-> empty_blocks[k].item.teacher_id,
                         room_id      |-> empty_blocks[k].item.room_id,
                         time_slot_id |-> slot_map(empty_blocks[k].day,
                                                   empty_blocks[k].slots[i]),
                         is_locked    |-> FALSE]]])
    IN  [n \in 1..Len(rows) |->
            [id |-> Len(entries) + n] @@ rows[n]]

\* item = block["item"]; item["subject_id"] raises TypeError on None
AllBlocksFilled == \A k \in 1..Len(empty_blocks) : empty_blocks[k].item # NoItem

SearchOver == pc = "return" /\ stack = << >>

NextCandidatePc == IF index + 1 < num_versions THEN "candidate" ELSE "select"

persistFrame == <<inst, editVars, num_versions, rng, class_items, empty_blocks, teacher_busy,
                  room_busy, stack, call_idx, ret, steps, candidates>>

\* success: the entries, the Success record and score 100.0 are committed
PersistSuccess ==
    /\ SearchOver
    /\ ret
    /\ AllBlocksFilled
    /\ versions' = Append(versions, Version(NewVersionId, 10000))
    /\ entries' = entries \o NewEntries(NewVersionId)
    /\ conflict_logs' = Append(conflict_logs,
            [version_id |-> NewVersionId, conflict_type |-> "Success"])
    /\ generated_versions' = Append(generated_versions, NewVersionId)
    /\ index' = index + 1
    /\ pc' = NextCandidatePc
    /\ UNCHANGED response
    /\ UNCHANGED persistFrame

\* success with an empty block: the TypeError ends the request, the session
\* is rolled back to the last commit and the run has no result
PersistCrash ==
    /\ SearchOver
    /\ ret
    /\ ~AllBlocksFilled
    /\ response' = [op |-> "generate", status |-> 500]
    /\ pc' = "idle"
    /\ UNCHANGED <<index, generated_versions>>
    /\ UNCHANGED dbVars
    /\ UNCHANGED persistFrame

\* failure: the generation_failed record and score 0 are committed
PersistFailed ==
    /\ SearchOver
    /\ ~ret
    /\ versions' = Append(versions, Version(NewVersionId, 0))
    /\ conflict_logs' = Append(conflict_logs,
            [version_id |-> NewVersionId, conflict_type |-> "generation_failed"])
    /\ generated_versions' = Append(generated_versions, NewVersionId)
    /\ index' = index + 1
    /\ pc' = NextCandidatePc
    /\ UNCHANGED <<entries, response>>
    /\ UNCHANGED persistFrame

----------------------------------------------------------------------------
(* The selector and the activate route *)

\* the update of is_active left out
Deactivated_Kept(vs) == vs

\* TimetableVersion.query.update({"is_active": False})
Deactivated(vs) == [i \in 1..Len(vs) |-> [vs[i] EXCEPT !.is_active = FALSE]]

\* row.is_active = True
Activated(vs, id) ==
    [i \in 1..Len(vs) |-> IF vs[i].id = id THEN [vs[i] EXCEPT !.is_active = TRUE]
                          ELSE vs[i]]

\* max(generated_versions, key=lambda v: v.score): the first of the maxima
best ==
    LET score(n) == versions[generated_versions[n]].score
        first == CHOOSE n \in 1..Len(generated_versions) :
                    /\ \A m \in 1..Len(generated_versions) : score(m) <= score(n)
                    /\ \A m \in 1..(n - 1) : score(m) < score(n)
    IN  generated_versions[first]

\* "if generated_versions:" and the answer of the route
Select ==
    /\ pc = "select"
    /\ IF generated_versions # << >>
       THEN /\ versions' = Activated(Deactivated(versions), best)
            /\ response' = [op |-> "generate", status |-> 201]
       ELSE /\ UNCHANGED versions
            /\ response' = [op |-> "generate", status |-> 400]
    /\ pc' = "idle"
    /\ UNCHANGED <<inst, editVars, entries, conflict_logs, candidates>>
    /\ UNCHANGED runVars

VersionIds == {versions[i].id : i \in 1..Len(versions)}

\* activate(version_id) of an existing version
Activate(version_id) ==
    /\ Idle
    /\ version_id \in VersionIds
    /\ versions' = Activated(Deactivated(versions), version_id)
    /\ response' = [op |-> "activate", status |-> 200]
    /\ UNCHANGED <<inst, editVars, entries, conflict_logs, pc, candidates>>
    /\ UNCHANGED runVars

\* get_or_404 fails: nothing is committed
ActivateMissing(version_id) ==
    /\ Idle
    /\ version_id \notin VersionIds
    /\ response' = [op |-> "activate", status |-> 404]
    /\ UNCHANGED <<inst, editVars, pc, candidates>>
    /\ UNCHANGED dbVars
    /\ UNCHANGED runVars

----------------------------------------------------------------------------

Init ==
    /\ inst \in Instances
    /\ versions = << >>
    /\ entries = << >>
    /\ conflict_logs = << >>
    /\ response = [op |-> "none", status |-> 0]
    /\ pc = "idle"
    /\ num_versions = 0
    /\ index = 0
    /\ rng \in 1..NumSeeds
    /\ class_items = << >>
    /\ empty_blocks = << >>
    /\ teacher_busy = {}
    /\ room_busy = {}
    /\ stack = << >>
    /\ call_idx = 0
    /\ ret = FALSE
    /\ generated_versions = << >>
    /\ steps = 0
    /\ candidates = 0
    /\ request = NoRequest
    /\ moved = << >>
    /\ sessions = [h \in Handlers |-> NoSession]

Next ==
    \/ GenerateBlocked
    \/ \E nv \in 0..MaxNumVersions : GenerateStart(nv)
    \/ BuildCandidate
    \/ PlaceCall
    \/ TryBlock
    \/ LoopEnd
    \/ ReturnTrue
    \/ Undo
    \/ PersistSuccess
    \/ PersistCrash
    \/ PersistFailed
    \/ Select
    \/ \E v \in 1..(Len(versions) + 1) : Activate(v)
    \/ \E v \in 1..(Len(versions) + 1) : ActivateMissing(v)

Spec == Init /\ [][Next]_vars

----------------------------------------------------------------------------
(* Vocabulary of the properties *)

LogTypes(version_id) ==
    {conflict_logs[i].conflict_type :
        i \in {j \in 1..Len(conflict_logs) : conflict_logs[j].version_id = version_id}}

\* the candidates recorded as successful, and those recorded as failed
SuccessfulVersions == {v \in VersionIds : "Success" \in LogTypes(v)}
FailedVersions     == {v \in VersionIds : "generation_failed" \in LogTypes(v)}

EntriesOf(version_id) ==
    {entries[i] : i \in {j \in 1..Len(entries) : entries[j].version_id = version_id}}

DayOf(e)   == SlotRow(e.time_slot_id).day_of_week
OrderOf(e) == SlotRow(e.time_slot_id).slot_order

\* among the entries E, those of (class, subject), and those on one day
OfSubject(E, s) == {e \in E : e.class_id = s.class_id /\ e.subject_id = s.id}

OnDay(E, day) == {e \in E : DayOf(e) = day}

\* E is the pair of entries of one lab block
IsLabPair(E) ==
    /\ Cardinality(E) = 2
    /\ {OrderOf(e) : e \in E} \in {{1, 2}, {5, 6}}
    /\ \A e1, e2 \in E : /\ DayOf(e1) = DayOf(e2)
                         /\ e1.teacher_id = e2.teacher_id
                         /\ e1.room_id = e2.room_id

ActiveVersions == {i \in 1..Len(versions) : versions[i].is_active}

Unavailable(teacher_id, time_slot_id) ==
    \E a \in inst.availability :
        /\ a.teacher_id = teacher_id
        /\ a.time_slot_id = time_slot_id
        /\ ~a.is_available

----------------------------------------------------------------------------
(* C1..C10: the properties of the generator and of activation *)

\* C1 (coverage, P1): on every instance the pre-check accepts, every candidate
\* recorded as successful has exactly lectures_per_week entries for each
\* (class, subject), and a search that placed every item does record its
\* candidate, also when the demand leaves blocks of the grid empty (the run
\* does not end in a server error).
C1_Coverage ==
    /\ \A v \in SuccessfulVersions : \A s \in Range(inst.subjects) :
            Cardinality(OfSubject(EntriesOf(v), s)) = s.lectures_per_week
    /\ ~(response.op = "generate" /\ response.status = 500)

\* C2 (availability, P8): no entry of a successful candidate places a teacher
\* in a slot that an availability row with is_available = false forbids.
C2_Availability ==
    \A v \in SuccessfulVersions : \A e \in EntriesOf(v) :
        ~Unavailable(e.teacher_id, e.time_slot_id)

\* C3 (type match and capacity, P6): in a successful candidate a theory
\* subject sits in a classroom, a lab subject in a lab room, and the room's
\* capacity is at least the class's student_strength.
C3_TypeAndCapacity ==
    \A v \in SuccessfulVersions : \A e \in EntriesOf(v) :
        /\ RoomRow(e.room_id).room_type =
              (IF SubjectRow(e.subject_id).is_lab THEN "lab" ELSE "classroom")
        /\ RoomRow(e.room_id).capacity >= ClassRow(e.class_id).student_strength

\* C4 (no teacher clash, P2): within a successful candidate the projection
\* (teacher_id, time_slot_id) of the entries is unique.
C4_NoTeacherClash ==
    \A v \in SuccessfulVersions :
        Cardinality({<<e.teacher_id, e.time_slot_id>> : e \in EntriesOf(v)})
            = Cardinality(EntriesOf(v))

\* a successful candidate in which one teacher teaches two classes and
\* teaches a lab block
C4_Witness ==
    \E v \in SuccessfulVersions : \E e1, e2 \in EntriesOf(v) :
        /\ e1.teacher_id = e2.teacher_id
        /\ e1.class_id # e2.class_id
        /\ \E e3 \in EntriesOf(v) : /\ e3.teacher_id = e1.teacher_id
                                    /\ SubjectRow(e3.subject_id).is_lab

\* C5 (no room or class clash, P3): within a successful candidate the
\* projections (room_id, time_slot_id) and (class_id, time_slot_id) of the
\* entries are unique.
C5_NoRoomOrClassClash ==
    \A v \in SuccessfulVersions :
        /\ Cardinality({<<e.room_id, e.time_slot_id>> : e \in EntriesOf(v)})
              = Cardinality(EntriesOf(v))
        /\ Cardinality({<<e.class_id, e.time_slot_id>> : e \in EntriesOf(v)})
              = Cardinality(EntriesOf(v))

\* a successful candidate in which one room is used by two classes
C5_Witness ==
    \E v \in SuccessfulVersions : \E e1, e2 \in EntriesOf(v) :
        e1.room_id = e2.room_id /\ e1.class_id # e2.class_id

\* C6 as stated (no same-day repeat, P7): the entries of a class on one day
\* have pairwise distinct subjects.
C6_NoSameDayRepeat ==
    \A v \in SuccessfulVersions : \A e1, e2 \in EntriesOf(v) :
        (e1.id # e2.id /\ e1.class_id = e2.class_id /\ DayOf(e1) = DayOf(e2))
            => e1.subject_id # e2.subject_id

\* C6 as amended: on one day a class has at most one entry of a theory
\* subject, and the entries of a lab subject are none or the two entries of
\* one lab block.
C6_NoSameDayRepeatOfBlocks ==
    \A v \in SuccessfulVersions :
        LET EV == EntriesOf(v)
        IN  \A s \in Range(inst.subjects) :
                LET ES == OfSubject(EV, s)
                IN  \A d \in Range(days_order) :
                        LET E == OnDay(ES, d)
                        IN  IF s.is_lab THEN E = {} \/ IsLabPair(E)
                            ELSE Cardinality(E) <= 1

\* a successful candidate with a day that holds a theory entry and a lab
\* pair of the same class
C6_Witness ==
    \E v \in SuccessfulVersions : \E e1, e2 \in EntriesOf(v) :
        /\ e1.class_id = e2.class_id
        /\ DayOf(e1) = DayOf(e2)
        /\ SubjectRow(e1.subject_id).is_lab
        /\ ~SubjectRow(e2.subject_id).is_lab

\* C7 (lab contiguity, P4): in a successful candidate every entry of a lab
\* subject belongs to a pair of entries of that subject on the same day, on
\* slot orders (1,2) or (5,6), with the same teacher and the same room.
C7_LabContiguity ==
    \A v \in SuccessfulVersions :
        LET EV == EntriesOf(v)
        IN  \A e \in EV :
                SubjectRow(e.subject_id).is_lab =>
                    IsLabPair(OnDay(OfSubject(EV, SubjectRow(e.subject_id)), DayOf(e)))

\* a successful candidate with lab pairs on (1,2) and on (5,6)
C7_Witness ==
    \E v \in SuccessfulVersions : \E e1, e2 \in EntriesOf(v) :
        /\ SubjectRow(e1.subject_id).is_lab /\ OrderOf(e1) = 2
        /\ SubjectRow(e2.subject_id).is_lab /\ OrderOf(e2) = 5

\* C8 (no break slots, P5): no entry of a successful candidate refers to a
\* time slot with is_break = true.
C8_NoBreakSlots ==
    \A v \in SuccessfulVersions : \A e \in EntriesOf(v) :
        ~SlotRow(e.time_slot_id).is_break

\* a successful candidate with entries on both sides of both breaks
C8_Witness ==
    \E v \in SuccessfulVersions :
        {3, 5, 6, 8} \subseteq {OrderOf(e) : e \in EntriesOf(v)}

\* C9 (exactly one active, P10): when activate has answered for an existing
\* version, and when the selector has run with at least one candidate,
\* exactly one version of the store is active.
C9_ExactlyOneActive ==
    (\/ response = [op |-> "activate", status |-> 200]
     \/ response = [op |-> "generate", status |-> 201])
        => Cardinality(ActiveVersions) = 1

\* activate has answered in a store of several versions and the active one
\* is not the first
C9_Witness ==
    /\ response = [op |-> "activate", status |-> 200]
    /\ Len(versions) >= 2
    /\ ~versions[1].is_active

\* C10: a failed candidate has score 0 and is never the active schedule.
C10_FailedNeverActive ==
    \A i \in 1..Len(versions) :
        versions[i].id \in FailedVersions =>
            versions[i].score = 0 /\ ~versions[i].is_active

----------------------------------------------------------------------------
(* detect_conflicts and _score_schedule of the service *)

\* TimetableEntry.query.filter_by(version_id=version_id).all(), in id order
VersionEntries(version_id) ==
    SelectSeq(entries, LAMBDA e : e.version_id = version_id)

TeacherRow(id) == CHOOSE t \in Range(inst.teachers) : t.id = id

\* the conflicts appended in the loop body for the k-th entry of es
ConflictsOfEntry(es, k) ==
    LET e     == es[k]
        seen  == {es[j] : j \in 1..(k - 1)}
        sameTeacherDay == {j \in 1..k : /\ es[j].teacher_id = e.teacher_id
                                        /\ DayOf(es[j]) = DayOf(e)}
    IN  (IF \E x \in seen : x.teacher_id = e.teacher_id
                            /\ x.time_slot_id = e.time_slot_id
         THEN << "teacher_clash" >> ELSE << >>)
        \o (IF \E x \in seen : x.room_id = e.room_id
                               /\ x.time_slot_id = e.time_slot_id
            THEN << "room_clash" >> ELSE << >>)
        \o (IF \E x \in seen : x.class_id = e.class_id
                               /\ x.time_slot_id = e.time_slot_id
            THEN << "class_clash" >> ELSE << >>)
        \o (IF \E x \in seen : /\ x.class_id = e.class_id
                               /\ DayOf(x) = DayOf(e)
                               /\ x.subject_id = e.subject_id
            THEN << "subject_repeat" >> ELSE << >>)
        \o (IF RoomRow(e.room_id).capacity < ClassRow(e.class_id).student_strength
            THEN << "room_capacity_mismatch" >> ELSE << >>)
        \o (IF Cardinality(sameTeacherDay) > TeacherRow(e.teacher_id).max_lectures_per_day
            THEN << "teacher_overload" >> ELSE << >>)

\* detect_conflicts(version_id): the types of the conflicts, in order
detect_conflicts(version_id) ==
    LET es == VersionEntries(version_id)
    IN  Flatten([k \in 1..Len(es) |-> ConflictsOfEntry(es, k)])

\* _score_schedule(version_id), in hundredths: 100.0 less 0.4 per entry of a
\* priority_morning subject after the second period, less 10 per conflict,
\* max(0.0, round(score, 2))
_score_schedule(version_id) ==
    LET es   == VersionEntries(version_id)
        late == {k \in 1..Len(es) : /\ SubjectRow(es[k].subject_id).priority_morning
                                    /\ OrderOf(es[k]) > 2}
        score == 10000 - 40 * Cardinality(late)
                       - 1000 * Len(detect_conflicts(version_id))
    IN  IF score < 0 THEN 0 ELSE score

VersionRow(id) == versions[id]

\* C11 (scoring): the score stored on every successful candidate is the
\* value of _score_schedule on its entries: 100 less 0.4 per entry of a
\* priority_morning subject with slot_order > 2, less 10 per conflict that
\* detect_conflicts reports, not below 0.
C11_StoredScore ==
    \A v \in SuccessfulVersions : VersionRow(v).score = _score_schedule(v)

----------------------------------------------------------------------------
(* C12: the selector *)

\* the candidates of the run that ended last
RunCandidates == Range(generated_versions)

\* C12 (selection): when generate has answered with candidates, the active
\* schedule is a candidate of this run whose score is the maximum of the
\* run's candidates, every other schedule of the store is inactive, and among
\* the candidates with the maximum score the active one is the newest.
C12_Selection ==
    response = [op |-> "generate", status |-> 201] =>
        \E a \in RunCandidates :
            /\ ActiveVersions = {a}
            /\ \A c \in RunCandidates : VersionRow(c).score <= VersionRow(a).score
            /\ \A c \in RunCandidates :
                    VersionRow(c).score = VersionRow(a).score => c <= a

----------------------------------------------------------------------------
(* C13: invalid instances *)

\* a class without subjects, a subject without teacher mapping, or a lab
\* subject with an odd lectures_per_week
InstanceInvalid ==
    \/ \E c \in Range(inst.classes) :
            \A s \in Range(inst.subjects) : s.class_id # c.id
    \/ \E s \in Range(inst.subjects) :
            /\ \E c \in Range(inst.classes) : s.class_id = c.id
            /\ \A ts \in Range(inst.teacher_subject) : ts.subject_id # s.id
    \/ \E s \in Range(inst.subjects) : s.is_lab /\ s.lectures_per_week % 2 = 1

\* C13 (InstanceInvalid): on an invalid instance generate never starts a
\* search, its only answer is the 400 with the issues, and no version, entry
\* or conflict log is ever persisted.
C13_InvalidInstanceAborts ==
    InstanceInvalid =>
        /\ pc = "idle"
        /\ response.op = "generate" => response.status = 400
        /\ versions = << >> /\ entries = << >> /\ conflict_logs = << >>

----------------------------------------------------------------------------
(* C14: the outcome of a run *)

\* C14 (failures are values): a run of generate_timetable never ends in an
\* unhandled exception, and when its loop is over it has produced
\* num_versions candidates, each recorded as successful or as failed.
C14_FailuresAreValues ==
    /\ response # [op |-> "generate", status |-> 500]
    /\ pc = "select" =>
        /\ Len(generated_versions) = num_versions
        /\ RunCandidates \subseteq (SuccessfulVersions \cup FailedVersions)

----------------------------------------------------------------------------
(* C15: repeated runs *)

\* the entry set of a version under a canonical key (row ids left out)
EntrySet(version_id) ==
    {[class_id |-> e.class_id, subject_id |-> e.subject_id,
      teacher_id |-> e.teacher_id, room_id |-> e.room_id,
      time_slot_id |-> e.time_slot_id] : e \in EntriesOf(version_id)}

\* C15 (determinism, P9): two runs of the generator on the same instance,
\* called with the same arguments, give their first candidates identical
\* entry sets.  Version 1 is the first candidate of the first run that
\* recorded one, generated_versions[1] the first candidate of the last run.
C15_Determinism ==
    (/\ generated_versions # << >>
     /\ 1 \in SuccessfulVersions
     /\ generated_versions[1] \in SuccessfulVersions)
        => EntrySet(generated_versions[1]) = EntrySet(1)

----------------------------------------------------------------------------
(* The move validator and the suggester of the timetable routes *)

MaxMoves == 1     \* move requests after which only moves back are requested
MaxLocks == 1     \* lock requests per behaviour

\* limit=5 of _suggest_alternate_slots
SuggestLimit == 5

\* TimeSlot.query.get(slot_id) finds a row
HasSlot(slot_id) == slot_id \in 1..Len(TimeSlots)

HasClass(id) == \E c \in Range(inst.classes) : c.id = id
HasRoom(id)  == \E r \in Range(inst.rooms) : r.id = id

\* True if not row else bool(row.is_available)
_is_teacher_available(teacher_id, slot_id) == ~Unavailable(teacher_id, slot_id)

\* the query that finds no row
same_slot_entries_None(version_id, slot_id) == << >>

\* TimetableEntry.query.filter_by(version_id=version_id, time_slot_id=slot_id).all()
same_slot_entries(version_id, slot_id) ==
    SelectSeq(entries, LAMBDA row : /\ row.version_id = version_id
                                    /\ row.time_slot_id = slot_id)

\* "for row in same_slot_entries": the message of the first row that is not
\* the entry itself and shares its teacher, room or class; "" for none
SlotClash(version_id, entry_id, class_id, teacher_id, room_id, slot_id) ==
    LET rows == SelectSeq(same_slot_entries(version_id, slot_id),
                    LAMBDA row : /\ row.id # entry_id
                                 /\ \/ row.teacher_id = teacher_id
                                    \/ row.room_id = room_id
                                    \/ row.class_id = class_id)
    IN  IF rows = << >> THEN ""
        ELSE IF Head(rows).teacher_id = teacher_id THEN "Teacher clash detected."
        ELSE IF Head(rows).room_id = room_id THEN "Room clash detected."
        ELSE "Class overlap detected."

\* subject_day_dup: another entry of the version with the class and the
\* subject of the entry, on the day of the target slot
subject_day_dup(version_id, entry_id, class_id, slot_id) ==
    \E i \in 1..Len(entries) :
        /\ entries[i].version_id = version_id
        /\ entries[i].id # entry_id
        /\ entries[i].class_id = class_id
        /\ entries[i].subject_id = entries[entry_id].subject_id
        /\ HasSlot(entries[i].time_slot_id)
        /\ DayOf(entries[i]) = SlotRow(slot_id).day_of_week

\* _validate_entry: the issue, "" for None
_validate_entry(version_id, entry_id, class_id, teacher_id, room_id, slot_id) ==
    IF ~HasSlot(slot_id) \/ SlotRow(slot_id).is_break
    THEN "Cannot assign timetable entry to a break slot."
    ELSE IF ~_is_teacher_available(teacher_id, slot_id)
    THEN "Teacher is unavailable in the target slot."
    ELSE IF /\ HasClass(class_id) /\ HasRoom(room_id)
            /\ RoomRow(room_id).capacity < ClassRow(class_id).student_strength
    THEN "Room capacity does not match class strength."
    ELSE IF SlotClash(version_id, entry_id, class_id, teacher_id, room_id, slot_id) # ""
    THEN SlotClash(version_id, entry_id, class_id, teacher_id, room_id, slot_id)
    ELSE IF subject_day_dup(version_id, entry_id, class_id, slot_id)
    THEN "Same subject repetition in one day is not allowed."
    ELSE ""

\* the day names in the order of order_by(TimeSlot.day_of_week)
days_by_name == << "Friday", "Monday", "Thursday", "Tuesday", "Wednesday" >>

\* TimeSlot.query.filter_by(is_break=False)
\*     .order_by(TimeSlot.day_of_week, TimeSlot.slot_order).all()
all_slots ==
    Flatten([d \in 1..Len(days_by_name) |->
        SelectSeq(slots, LAMBDA s : s.day_of_week = days_by_name[d])])

\* a suggester that finds nothing
_suggest_alternate_slots_None(version_id, entry) == << >>

\* _suggest_alternate_slots(version_id, entry): the ids of the first
\* SuggestLimit slots of all_slots that pass _validate_entry
_suggest_alternate_slots(version_id, entry) ==
    LET passing == SelectSeq(all_slots, LAMBDA slot :
                        _validate_entry(version_id, entry.id, entry.class_id,
                                        entry.teacher_id, entry.room_id, slot.id) = "")
        n == IF Len(passing) < SuggestLimit THEN Len(passing) ELSE SuggestLimit
    IN  [k \in 1..n |-> passing[k].id]

----------------------------------------------------------------------------
(* The move and lock routes, one request at a time *)

\* the request and its answer, with the entries as they were before it and
\* the number of move requests so far
Request(op, entry_id, time_slot_id, error, alternates) ==
    [op |-> op, entry_id |-> entry_id, time_slot_id |-> time_slot_id,
     error |-> error, alternates |-> alternates, before |-> entries,
     n |-> IF op = "move" THEN request.n + 1 ELSE request.n]

editFrame == <<inst, versions, conflict_logs, pc, candidates, sessions>>

\* a lock test that never fires
IsLocked_Never(entry) == FALSE

\* "if entry.is_locked"
IsLocked(entry) == entry.is_locked

\* move_entry(entry_id) with time_slot_id = new_slot in the body (0: none)
MoveEntry(entry_id, new_slot) ==
    /\ Idle
    /\ entry_id \in 1..Len(entries)
    /\ LET entry == entries[entry_id]
           issue == _validate_entry(entry.version_id, entry.id, entry.class_id,
                                    entry.teacher_id, entry.room_id, new_slot)
       IN  IF IsLocked(entry)
           THEN /\ response' = [op |-> "move", status |-> 400]
                /\ request' = Request("move", entry_id, new_slot,
                                      "Locked entry cannot be moved", << >>)
                /\ UNCHANGED <<entries, moved>>
           ELSE IF new_slot = 0
           THEN /\ response' = [op |-> "move", status |-> 400]
                /\ request' = Request("move", entry_id, new_slot,
                                      "time_slot_id is required", << >>)
                /\ UNCHANGED <<entries, moved>>
           ELSE IF issue # ""
           THEN /\ response' = [op |-> "move", status |-> 400]
                /\ request' = Request("move", entry_id, new_slot, issue,
                                _suggest_alternate_slots(entry.version_id, entry))
                /\ UNCHANGED <<entries, moved>>
           ELSE /\ entries' = [entries EXCEPT ![entry_id].time_slot_id = new_slot]
                /\ response' = [op |-> "move", status |-> 200]
                /\ request' = Request("move", entry_id, new_slot, "", << >>)
                /\ moved' = Append(moved, [entry_id |-> entry_id,
                                           from |-> entry.time_slot_id,
                                           to |-> new_slot,
                                           before |-> entries])
    /\ UNCHANGED editFrame
    /\ UNCHANGED runVars

\* get_or_404 fails: nothing is committed
MoveMissing(entry_id, new_slot) ==
    /\ Idle
    /\ entry_id \notin 1..Len(entries)
    /\ response' = [op |-> "move", status |-> 404]
    /\ request' = Request("move", entry_id, new_slot, "Not Found", << >>)
    /\ UNCHANGED <<entries, moved>>
    /\ UNCHANGED editFrame
    /\ UNCHANGED runVars

\* lock_period: the entry of the body is added with is_locked = True
LockPeriod(data) ==
    /\ Idle
    /\ entries' = Append(entries,
            [id           |-> Len(entries) + 1,
             version_id   |-> data.version_id,
             class_id     |-> data.class_id,
             subject_id   |-> data.subject_id,
             teacher_id   |-> data.teacher_id,
             room_id      |-> data.room_id,
             time_slot_id |-> data.time_slot_id,
             is_locked    |-> TRUE])
    /\ response' = [op |-> "lock", status |-> 201]
    /\ request' = Request("lock", Len(entries) + 1, data.time_slot_id, "", << >>)
    /\ UNCHANGED moved
    /\ UNCHANGED editFrame
    /\ UNCHANGED runVars

----------------------------------------------------------------------------
(* The edits explored: one generated schedule, then lock and move requests *)

EditInstances == {FullWeek, TwoClasses}

\* the target slots of the move requests: none, a break slot, an id without
\* row, and the last period of every day
TargetSlots ==
    {0, Len(TimeSlots) + 1}
        \cup {s.id : s \in {x \in Range(TimeSlots) :
                        \/ x.slot_order = 9
                        \/ x.day_of_week = "Monday" /\ x.slot_order = 4}}

\* the original slots of the entry's accepted moves
Origins(entry_id) ==
    {moved[k].from : k \in {j \in 1..Len(moved) : moved[j].entry_id = entry_id}}

MoveTargets(entry_id) ==
    (IF request.n < MaxMoves THEN TargetSlots ELSE {})
        \cup (IF request.n < 2 * MaxMoves THEN Origins(entry_id) ELSE {})

\* the entries the move requests address: those of the first class on the
\* first day of the week, the locked ones and those already moved
MovableEntries ==
    {i \in 1..Len(entries) :
        \/ entries[i].is_locked
        \/ Origins(i) # {}
        \/ /\ entries[i].class_id = inst.classes[1].id
           /\ DayOf(entries[i]) = days_order[1]}

\* the bodies of the lock requests: a second period of lab subject 2 of the
\* first class, on Monday's eighth period, in an existing version
LockInputs ==
    {[version_id |-> v, class_id |-> 1, subject_id |-> 2, teacher_id |-> 1,
      room_id |-> 2, time_slot_id |-> 8] : v \in VersionIds}

LockedEntries == {i \in 1..Len(entries) : entries[i].is_locked}

\* POST /generate with num_versions = 1 on the empty store
GenerateOnce ==
    /\ versions = << >>
    /\ GenerateStart(1)

InitEdit ==
    /\ Init
    /\ inst \in EditInstances

NextEdit ==
    \/ GenerateOnce
    \/ BuildCandidate
    \/ PlaceCall
    \/ TryBlock
    \/ LoopEnd
    \/ ReturnTrue
    \/ Undo
    \/ PersistSuccess
    \/ Select
    \/ \E e \in MovableEntries : \E s \in MoveTargets(e) : MoveEntry(e, s)
    \/ \E s \in MoveTargets(0) : versions # << >> /\ MoveMissing(Len(entries) + 1, s)
    \/ \E data \in LockInputs :
            /\ Cardinality(LockedEntries) < MaxLocks
            /\ request.n = 0
            /\ LockPeriod(data)

SpecEdit == InitEdit /\ [][NextEdit]_vars

----------------------------------------------------------------------------
(* C16..C20: the properties of the move route.  They are stated on the     *)
(* state after a move request: request holds the request, its answer and  *)
(* the entries before it.                                                  *)

MoveAnswered == request.op = "move" /\ response.status # 404

\* the entry the request addressed, as it was before the request
Requested == request.before[request.entry_id]

\* before the request, another entry of the version sat in the target slot
\* with the teacher, the room or the class of the requested entry
TargetTaken ==
    \E i \in 1..Len(request.before) :
        LET row == request.before[i]
        IN  /\ row.id # Requested.id
            /\ row.version_id = Requested.version_id
            /\ row.time_slot_id = request.time_slot_id
            /\ \/ row.teacher_id = Requested.teacher_id
               \/ row.room_id = Requested.room_id
               \/ row.class_id = Requested.class_id

\* some non-break slot passes validation for the requested entry
SomeSlotPasses ==
    \E k \in 1..Len(slots) :
        _validate_entry(Requested.version_id, Requested.id, Requested.class_id,
                        Requested.teacher_id, Requested.room_id, slots[k].id) = ""

Rejected == response = [op |-> "move", status |-> 400] /\ entries = request.before

\* C16 as stated (move rejection): a move request whose target slot holds
\* another entry of the version with the same teacher, room or class is
\* rejected, leaves every entry unchanged, and returns a non-empty list of
\* alternates whenever some non-break slot passes validation for the entry.
C16_MoveRejection ==
    (MoveAnswered /\ TargetTaken) =>
        /\ Rejected
        /\ SomeSlotPasses => request.alternates # << >>

\* C16 as amended: the same, with the alternates promised for an entry that
\* is not locked.
C16_MoveRejectionOfUnlocked ==
    (MoveAnswered /\ TargetTaken) =>
        /\ Rejected
        /\ (SomeSlotPasses /\ ~Requested.is_locked) => request.alternates # << >>

\* a rejected move into a slot where another class has the entry's teacher,
\* answered with alternates
C16_Witness ==
    /\ MoveAnswered
    /\ ~Requested.is_locked
    /\ \E i \in 1..Len(request.before) :
            /\ request.before[i].time_slot_id = request.time_slot_id
            /\ request.before[i].teacher_id = Requested.teacher_id
            /\ request.before[i].class_id # Requested.class_id
    /\ request.error = "Teacher clash detected."
    /\ Rejected
    /\ request.alternates # << >>

\* C17 (locked entries): a move request on a locked entry is refused whatever
\* its target slot, and a move request leaves every locked entry as it was.
C17_LockedStaysPut ==
    MoveAnswered =>
        /\ Requested.is_locked => Rejected
        /\ \A i \in 1..Len(request.before) :
                request.before[i].is_locked => entries[i] = request.before[i]

\* a refused move of a locked entry to another slot that passes validation
C17_Witness ==
    /\ MoveAnswered
    /\ Requested.is_locked
    /\ request.time_slot_id # Requested.time_slot_id
    /\ _validate_entry(Requested.version_id, Requested.id, Requested.class_id,
                       Requested.teacher_id, Requested.room_id,
                       request.time_slot_id) = ""
    /\ Rejected

\* entries of one version never share a slot with the same teacher, room or
\* class, and none sits in a break slot or in a slot without row
UniqueIn(E) ==
    \A i, j \in 1..Len(E) :
        (i < j /\ E[i].version_id = E[j].version_id
               /\ E[i].time_slot_id = E[j].time_slot_id)
            => /\ E[i].teacher_id # E[j].teacher_id
               /\ E[i].room_id # E[j].room_id
               /\ E[i].class_id # E[j].class_id

NoBreakIn(E) ==
    \A i \in 1..Len(E) :
        HasSlot(E[i].time_slot_id) /\ ~SlotRow(E[i].time_slot_id).is_break

\* C18 (moves preserve uniqueness): if before a move request no two entries
\* of a version share (teacher, slot), (room, slot) or (class, slot) and no
\* entry sits in a break slot, the same holds after the request, accepted or
\* rejected.
C18_MovesPreserveUniqueness ==
    (MoveAnswered /\ UniqueIn(request.before) /\ NoBreakIn(request.before))
        => UniqueIn(entries) /\ NoBreakIn(entries)

\* an accepted move to another slot in a schedule of two classes without
\* duplicates
C18_Witness ==
    /\ MoveAnswered
    /\ response.status = 200
    /\ entries # request.before
    /\ UniqueIn(request.before) /\ NoBreakIn(request.before)
    /\ \E i \in 1..Len(entries) : entries[i].class_id # Requested.class_id

\* every entry of a lab subject in E belongs to a lab pair of its version,
\* class and subject on its day
LabsContiguousIn(E) ==
    \A i \in 1..Len(E) :
        SubjectRow(E[i].subject_id).is_lab =>
            IsLabPair({E[j] : j \in {k \in 1..Len(E) :
                            /\ E[k].version_id = E[i].version_id
                            /\ E[k].class_id = E[i].class_id
                            /\ E[k].subject_id = E[i].subject_id
                            /\ DayOf(E[k]) = DayOf(E[i])}})

NoneLockedIn(E) == \A i \in 1..Len(E) : ~E[i].is_locked

\* C19 (moves preserve lab contiguity): after an accepted move in a generated
\* schedule, whose labs are pairs of entries on consecutive periods of one
\* day with one teacher and one room, every lab is still such a pair.
C19_MovesPreserveLabs ==
    (/\ MoveAnswered
     /\ response.status = 200
     /\ NoneLockedIn(request.before)
     /\ LabsContiguousIn(request.before))
        => LabsContiguousIn(entries)

\* a move back: the request asks for the slot the entry left in an accepted
\* move, right after that move
MoveBackOf(k) ==
    /\ MoveAnswered
    /\ request.entry_id = moved[k].entry_id
    /\ request.time_slot_id = moved[k].from
    /\ request.before =
          [moved[k].before EXCEPT ![moved[k].entry_id].time_slot_id = moved[k].to]

\* C20 (move round trip, P12): when move(e, s) was accepted for an entry e of
\* a generated schedule, the following move(e, s0) to its former slot is
\* accepted and the entries are those before the first move.
C20_MoveRoundTrip ==
    \A k \in 1..Len(moved) :
        (MoveBackOf(k) /\ NoneLockedIn(moved[k].before))
            => response.status = 200 /\ entries = moved[k].before

----------------------------------------------------------------------------
(* C21: the lock route *)

LockAnswered == request.op = "lock"

\* the entries a request added to the store
Added == {entries[i] : i \in (Len(request.before) + 1)..Len(entries)}

\* e sits in a break slot or in a slot without row, or shares its slot with
\* an entry of E of its version that has its teacher, room or class
ClashesWith(e, E) ==
    \/ ~HasSlot(e.time_slot_id)
    \/ SlotRow(e.time_slot_id).is_break
    \/ \E i \in 1..Len(E) :
            /\ E[i].version_id = e.version_id
            /\ E[i].time_slot_id = e.time_slot_id
            /\ \/ E[i].teacher_id = e.teacher_id
               \/ E[i].room_id = e.room_id
               \/ E[i].class_id = e.class_id

\* C21 (lock edits are validator-gated): a lock request never adds an entry
\* on a break slot or on a (teacher, slot), (room, slot) or (class, slot)
\* that an entry of the version already uses, so a schedule without such
\* duplicates has none after the request.
C21_LockValidated ==
    LockAnswered =>
        /\ \A e \in Added : ~ClashesWith(e, request.before)
        /\ (UniqueIn(request.before) /\ NoBreakIn(request.before))
                => (UniqueIn(entries) /\ NoBreakIn(entries))

----------------------------------------------------------------------------
(* C24: what detect_conflicts reports *)

\* the conflict types detect_conflicts returns for the version
ReportedKinds(version_id) == Range(detect_conflicts(version_id))

\* the entries of the version whose teacher is marked unavailable in their
\* slot, and those on a break slot
OnUnavailable(version_id) ==
    {e \in EntriesOf(version_id) : Unavailable(e.teacher_id, e.time_slot_id)}

OnBreak(version_id) ==
    {e \in EntriesOf(version_id) : SlotRow(e.time_slot_id).is_break}

\* C24 (validator completeness): detect_conflicts reports teacher_unavailable
\* for a version with an entry whose teacher is marked unavailable in its
\* slot and break_slot for a version with an entry on a break slot, and it
\* returns the empty list only for a version without such entries and with
\* unique (teacher, slot), (room, slot) and (class, slot).
C24_ValidatorComplete ==
    \A v \in VersionIds :
        /\ OnUnavailable(v) # {} => "teacher_unavailable" \in ReportedKinds(v)
        /\ OnBreak(v) # {} => "break_slot" \in ReportedKinds(v)
        /\ ReportedKinds(v) = {} =>
                /\ OnUnavailable(v) = {}
                /\ OnBreak(v) = {}
                /\ UniqueIn(VersionEntries(v))

----------------------------------------------------------------------------
(* C25: the item list of the search *)

\* the number of items of a subject in class_items
ItemsOf(s) ==
    Cardinality({i \in 1..Len(class_items) :
                    /\ class_items[i].class_id = s.class_id
                    /\ class_items[i].subject_id = s.id
                    /\ class_items[i].type = (IF s.is_lab THEN "L" ELSE "T")})

\* the blocks of a type that hold an item
FilledBlocks(type) ==
    {k \in 1..Len(empty_blocks) :
        empty_blocks[k].type = type /\ empty_blocks[k].item # NoItem}

\* C25 (item ordering): in the item list of a candidate every lab item comes
\* before every theory item, a theory block is filled only when every lab
\* item is in a block, and a subject with lectures_per_week = k has k items
\* if it is a theory subject and k \div 2 items if it is a lab subject.
C25_ItemOrdering ==
    class_items # << >> =>
        /\ \A i, j \in 1..Len(class_items) :
                (class_items[i].type = "L" /\ class_items[j].type = "T") => i < j
        /\ FilledBlocks("T") # {} =>
                Cardinality(FilledBlocks("L")) =
                    Len(SelectSeq(class_items, LAMBDA x : x.type = "L"))
        /\ \A s \in Range(inst.subjects) :
                ItemsOf(s) = IF s.is_lab THEN s.lectures_per_week \div 2
                             ELSE s.lectures_per_week

----------------------------------------------------------------------------
(* C28: the bookkeeping of the search *)

InSearch == pc \in {"call", "loop", "return"}

\* the (x, slot) keys of the filled blocks, x the teacher or the room of the
\* block's item
KeysOfFilled(field) ==
    UNION {Range(BusyKeys(empty_blocks[k], empty_blocks[k].item[field])) :
            k \in {j \in 1..Len(empty_blocks) : empty_blocks[j].item # NoItem}}

\* place_item is at "return False" behind its loop
ReturnsFalse == pc = "loop" /\ Top.pos > Len(Top.valid_blocks)

\* C28 (backtracking bookkeeping): at every point of the search teacher_busy
\* is the set of (teacher, slot) pairs and room_busy the set of (room, slot)
\* pairs of the filled blocks, and when a call of place_item returns False,
\* teacher_busy, room_busy and every block's item are what they were when
\* the call was entered.
C28_Bookkeeping ==
    InSearch =>
        /\ teacher_busy = KeysOfFilled("teacher_id")
        /\ room_busy = KeysOfFilled("room_id")
        /\ ReturnsFalse => Bookkeeping = Top.entered

\* a call of place_item returns False although one of its valid blocks
\* takes the item in the state the call leaves: the item was put there, the
\* call made for the next item failed, and the block and the keys were
\* restored
C28_Witness ==
    /\ ReturnsFalse
    /\ teacher_busy # {}
    /\ \E k \in Range(Top.valid_blocks) :
            LET block == empty_blocks[k]
                item  == class_items[Top.item_idx + 1]
                rooms == IF item.type = "T" THEN classrooms ELSE lab_rooms
            IN  /\ item.subject_id \notin daily_subs(item.class_id, block.day)
                /\ ~t_conflict(block, Top.teacher_id)
                /\ \E i \in 1..Len(rooms) : ~r_conflict(block, rooms[i].id)

----------------------------------------------------------------------------
(* C27: the generation log *)

\* the generation records of a version
LogsOf(version_id) ==
    {i \in 1..Len(conflict_logs) : conflict_logs[i].version_id = version_id}

\* the generate request has ended
RunEnded == pc = "idle" /\ response.op = "generate"

\* C27 (generation log): every recorded candidate has exactly one generation
\* record; the record is generation_failed exactly when the candidate has no
\* entries and score 0, and Success otherwise, in which case the entries of
\* a non-empty grid are stored; a run with num_versions = n records n
\* candidates.
C27_GenerationLog ==
    /\ \A v \in VersionIds :
            /\ Cardinality(LogsOf(v)) = 1
            /\ LogTypes(v) \in {{"Success"}, {"generation_failed"}}
            /\ "generation_failed" \in LogTypes(v)
                    <=> (EntriesOf(v) = {} /\ VersionRow(v).score = 0)
            /\ ("Success" \in LogTypes(v) /\ inst.classes # << >>)
                    => EntriesOf(v) # {}
    /\ RunEnded => Len(generated_versions) = num_versions

----------------------------------------------------------------------------
(* C29: detect_conflicts on the generator's own candidates *)

\* no teacher has more entries on a day than max_lectures_per_day, and every
\* entry's room holds the class
WithinCaps(version_id) ==
    LET E == EntriesOf(version_id)
    IN  /\ \A e \in E :
            Cardinality({x \in E : x.teacher_id = e.teacher_id /\ DayOf(x) = DayOf(e)})
                <= TeacherRow(e.teacher_id).max_lectures_per_day
        /\ \A e \in E :
            RoomRow(e.room_id).capacity >= ClassRow(e.class_id).student_strength

\* C29 (generator and validator agree): detect_conflicts returns no conflict
\* for a successful candidate in which no teacher exceeds
\* max_lectures_per_day and every room holds its class; the two entries of
\* a lab block are not reported as subject_repeat.
C29_ValidatorAcceptsCandidates ==
    \A v \in SuccessfulVersions : WithinCaps(v) => detect_conflicts(v) = << >>

----------------------------------------------------------------------------
(* C26: the alternates of a rejected move *)

\* the validator refused the move, so the suggester was called
Suggested ==
    /\ MoveAnswered
    /\ Rejected
    /\ ~IsLocked(Requested)
    /\ request.time_slot_id # 0

\* the non-break slots from Monday to Friday, by slot_order within a day,
\* that pass validation for the requested entry
PassingInWeekOrder ==
    LET week == Flatten([d \in 1..Len(days_order) |->
                    SelectSeq(slots, LAMBDA s : s.day_of_week = days_order[d])])
    IN  SelectSeq(week, LAMBDA slot :
            _validate_entry(Requested.version_id, Requested.id, Requested.class_id,
                            Requested.teacher_id, Requested.room_id, slot.id) = "")

\* the first break slot of the week
FirstBreak ==
    LET breaks == {x.id : x \in {y \in Range(TimeSlots) : y.is_break}}
    IN  CHOOSE b \in breaks : \A c \in breaks : b <= c

\* one generated schedule, then move requests that take any entry to the
\* first break slot: each is refused by the validator and answered with the
\* alternates of the entry
NextSuggest ==
    \/ GenerateOnce
    \/ BuildCandidate
    \/ PlaceCall
    \/ TryBlock
    \/ LoopEnd
    \/ ReturnTrue
    \/ Undo
    \/ PersistSuccess
    \/ Select
    \/ \E e \in 1..Len(entries) : request.n < MaxMoves /\ MoveEntry(e, FirstBreak)

SpecSuggest == InitEdit /\ [][NextSuggest]_vars

\* C26 (suggester): the alternates of a rejected move are at most
\* SuggestLimit slots, each a non-break slot that passes validation for the
\* entry, and they are the first SuggestLimit passing slots when the
\* non-break slots are taken day by day from Monday on, by slot_order.
C26_Suggester ==
    Suggested =>
        /\ Len(request.alternates) <= SuggestLimit
        /\ \A k \in 1..Len(request.alternates) :
                /\ HasSlot(request.alternates[k])
                /\ ~SlotRow(request.alternates[k]).is_break
                /\ _validate_entry(Requested.version_id, Requested.id,
                        Requested.class_id, Requested.teacher_id,
                        Requested.room_id, request.alternates[k]) = ""
        /\ request.alternates =
                [k \in 1..Len(request.alternates) |-> PassingInWeekOrder[k].id]
        /\ Len(request.alternates) < SuggestLimit
                => Len(request.alternates) = Len(PassingInWeekOrder)

----------------------------------------------------------------------------
(* C22: two move requests handled concurrently *)

raceFrame == <<inst, conflict_logs, pc, candidates, request>>

\* move_entry up to the validation: a locked entry, a missing target and a
\* refused move are answered at once, a move that passes goes on to the write
MoveValidate(h, entry_id, new_slot) ==
    /\ sessions[h] = NoSession
    /\ entry_id \in 1..Len(entries)
    /\ LET entry == entries[entry_id]
           issue == _validate_entry(entry.version_id, entry.id, entry.class_id,
                                    entry.teacher_id, entry.room_id, new_slot)
           this  == [NoSession EXCEPT !.op = "move", !.id = entry_id,
                                      !.slot = new_slot]
       IN  IF IsLocked(entry) \/ new_slot = 0 \/ issue # ""
           THEN /\ sessions' = [sessions EXCEPT
                        ![h] = [this EXCEPT !.pc = "done", !.status = 400]]
                /\ response' = [op |-> "move", status |-> 400]
           ELSE /\ sessions' = [sessions EXCEPT ![h] = [this EXCEPT !.pc = "validated"]]
                /\ UNCHANGED response
    /\ UNCHANGED <<versions, entries, moved>>
    /\ UNCHANGED raceFrame
    /\ UNCHANGED runVars

\* entry.time_slot_id = int(new_slot); db.session.commit()
MoveWrite(h) ==
    /\ sessions[h].pc = "validated"
    /\ entries' = [entries EXCEPT ![sessions[h].id].time_slot_id = sessions[h].slot]
    /\ moved' = Append(moved, [entry_id |-> sessions[h].id,
                               from |-> entries[sessions[h].id].time_slot_id,
                               to |-> sessions[h].slot,
                               before |-> entries])
    /\ sessions' = [sessions EXCEPT ![h].pc = "done", ![h].status = 200]
    /\ response' = [op |-> "move", status |-> 200]
    /\ UNCHANGED versions
    /\ UNCHANGED raceFrame
    /\ UNCHANGED runVars

\* the targets of the concurrent moves: the last period of the first two days
RaceTargets ==
    {s.id : s \in {x \in Range(TimeSlots) :
                    /\ x.slot_order = 9
                    /\ x.day_of_week \in {days_order[1], days_order[2]}}}

\* one generated schedule of two classes, then one move request per handler
InitMoveRace == Init /\ inst = TwoClasses

NextMoveRace ==
    \/ GenerateOnce
    \/ BuildCandidate
    \/ PlaceCall
    \/ TryBlock
    \/ LoopEnd
    \/ ReturnTrue
    \/ Undo
    \/ PersistSuccess
    \/ Select
    \/ \E h \in Handlers : \E e \in MovableEntries : \E s \in RaceTargets :
            Idle /\ MoveValidate(h, e, s)
    \/ \E h \in Handlers : MoveWrite(h)

SpecMoveRace == InitMoveRace /\ [][NextMoveRace]_vars

\* every handler has answered its move request with 200
BothAccepted ==
    \A h \in Handlers : sessions[h].op = "move" /\ sessions[h].status = 200

\* C22 (atomic admin edits): two move requests on one schedule whose
\* validate and write steps interleave are never both accepted into a state
\* in which two entries of a version share a (teacher, slot), (room, slot)
\* or (class, slot).
C22_ConcurrentMovesAtomic == BothAccepted => UniqueIn(entries)

----------------------------------------------------------------------------
(* C23: activate requests and generate runs handled concurrently *)

\* every write takes the store's write lock
WriteLockFree_Always == TRUE

\* the store is the SQLite file of the configuration: the first write of a
\* transaction takes the write lock of the database and keeps it until the
\* commit or the rollback; a handler between its UPDATE and its commit holds it
WriteLockFree == \A h \in Handlers : sessions[h].pc # "cleared"

\* the rows of vs that a handler's UPDATE set to is_active = False
Cleared(vs, rows) ==
    [i \in 1..Len(vs) |-> IF vs[i].id \in rows
                          THEN [vs[i] EXCEPT !.is_active = FALSE] ELSE vs[i]]

activateFrame == <<inst, entries, conflict_logs, pc, candidates, request, moved>>

\* TimetableVersion.query.update({"is_active": False}), not yet committed
ActClear(h, version_id) ==
    /\ sessions[h] = NoSession
    /\ WriteLockFree
    /\ sessions' = [sessions EXCEPT ![h] =
            [NoSession EXCEPT !.op = "activate", !.pc = "cleared",
                              !.id = version_id, !.rows = VersionIds]]
    /\ UNCHANGED <<versions, response>>
    /\ UNCHANGED activateFrame
    /\ UNCHANGED runVars

\* get_or_404, row.is_active = True and the commit; on 404 the request ends
\* and the UPDATE is rolled back
ActSet(h) ==
    /\ sessions[h].pc = "cleared"
    /\ IF sessions[h].id \in VersionIds
       THEN /\ versions' = Activated(Cleared(versions, sessions[h].rows),
                                     sessions[h].id)
            /\ sessions' = [sessions EXCEPT ![h].pc = "done", ![h].status = 200]
            /\ response' = [op |-> "activate", status |-> 200]
       ELSE /\ UNCHANGED versions
            /\ sessions' = [sessions EXCEPT ![h].pc = "done", ![h].status = 404]
            /\ response' = [op |-> "activate", status |-> 404]
    /\ UNCHANGED activateFrame
    /\ UNCHANGED runVars

\* the UPDATE of activate waits for the write lock until the busy timeout
\* ends the request: "database is locked"
ActBusy(h, version_id) ==
    /\ sessions[h] = NoSession
    /\ ~WriteLockFree
    /\ sessions' = [sessions EXCEPT ![h] =
            [NoSession EXCEPT !.op = "activate", !.pc = "done",
                              !.id = version_id, !.status = 500]]
    /\ response' = [op |-> "activate", status |-> 500]
    /\ UNCHANGED versions
    /\ UNCHANGED activateFrame
    /\ UNCHANGED runVars

\* the same for the INSERT of a candidate's version and for the selector's
\* UPDATE: the run ends without result, what it committed before stays
GenerateBusy ==
    /\ SearchOver \/ pc = "select"
    /\ ~WriteLockFree
    /\ response' = [op |-> "generate", status |-> 500]
    /\ pc' = "idle"
    /\ UNCHANGED <<inst, editVars, candidates>>
    /\ UNCHANGED dbVars
    /\ UNCHANGED runVars

\* instances whose candidates are recorded after a short search
RaceInstances == {NoClasses, NoClassroom}

InitActivateRace == Init /\ inst \in RaceInstances

\* generate runs, and one activate request per handler at any moment of them
NextActivateRace ==
    \/ \E nv \in 1..MaxNumVersions : GenerateStart(nv)
    \/ BuildCandidate
    \/ PlaceCall
    \/ TryBlock
    \/ LoopEnd
    \/ WriteLockFree /\ PersistSuccess
    \/ WriteLockFree /\ PersistFailed
    \/ WriteLockFree /\ Select
    \/ GenerateBusy
    \/ \E h \in Handlers : \E v \in 1..(Len(versions) + 1) : ActClear(h, v)
    \/ \E h \in Handlers : ActSet(h)
    \/ \E h \in Handlers : \E v \in 1..(Len(versions) + 1) : ActBusy(h, v)

SpecActivateRace == InitActivateRace /\ [][NextActivateRace]_vars

\* C23 (at most one active at any observable moment): under every
\* interleaving of activate requests and generate runs, every committed
\* state of the store has at most one version with is_active = TRUE.
C23_AtMostOneActive == Cardinality(ActiveVersions) <= 1

\* a handler has cleared the flags and not committed while a generate run
\* waits for the selector, and the other handler's activate is committed
C23_Witness ==
    /\ pc = "select"
    /\ \E h \in Handlers : sessions[h].pc = "cleared" /\ sessions[h].id \in VersionIds
    /\ \E h \in Handlers : sessions[h].status = 200
    /\ Len(versions) >= 2

----------------------------------------------------------------------------
(* C30: what a failed search says about the grid *)

MaxFeasibleItems == 3   \* item lists up to this length are checked against
                        \* every assignment

\* the room ids of the group an item type is placed in
RoomIdsFor(type) ==
    {r.id : r \in Range(IF type = "T" THEN classrooms ELSE lab_rooms)}

\* the slot ids of a block
SlotIds(block) == {slot_map(block.day, block.slots[i]) : i \in 1..Len(block.slots)}

\* some assignment of every item to a block of its class and type, each with
\* a room of the item's group, puts no subject twice on a day of a class and
\* uses no teacher and no room twice in a slot
Feasible ==
    LET n == Len(class_items)
        B == 1..Len(empty_blocks)
        R == {r.id : r \in Range(inst.rooms)}
    IN  \E b \in [1..n -> B] : \E r \in [1..n -> R] :
            /\ \A i \in 1..n :
                    /\ empty_blocks[b[i]].class_id = class_items[i].class_id
                    /\ empty_blocks[b[i]].type = class_items[i].type
                    /\ r[i] \in RoomIdsFor(class_items[i].type)
            /\ \A i, j \in 1..n : i < j =>
                    /\ b[i] # b[j]
                    /\ (/\ class_items[i].class_id = class_items[j].class_id
                        /\ class_items[i].subject_id = class_items[j].subject_id)
                            => empty_blocks[b[i]].day # empty_blocks[b[j]].day
                    /\ t_map(class_items[i].subject_id) = t_map(class_items[j].subject_id)
                            => SlotIds(empty_blocks[b[i]]) \cap SlotIds(empty_blocks[b[j]]) = {}
                    /\ r[i] = r[j]
                            => SlotIds(empty_blocks[b[i]]) \cap SlotIds(empty_blocks[b[j]]) = {}

\* place_item(0) has returned False
SearchFailed == SearchOver /\ ~ret

====
